---- MODULE Spec2Model ----
(***************************************************************************)
(* gpssnmp (clients/gpssnmp.c): connect to gpsd, wait for one SKY report,  *)
(* derive visible / used / average SNR, print the metric named by -g OID.  *)
(*                                                                         *)
(* Time is counted in ticks of 1/TicksPerSec second so that the whole-     *)
(* second truncation of tv_sec is visible.  `wall' is the reading of       *)
(* CLOCK_REALTIME (it may be stepped backward), `real' is the time that    *)
(* actually passed since the poll loop started.                            *)
(* Signal strengths are whole dBHz; snr_avg is kept as the exact quotient  *)
(* <<numerator, denominator>> and rendered by "%lf" to six fractional      *)
(* digits (micro units).                                                   *)
(***************************************************************************)
EXTENDS Integers, Sequences, FiniteSets, TLC

\* ---------------------------------------------------------------- bounds
MaxChannels == 3        \* length of gpsdata.skyview[] in the model
TicksPerSec == 2        \* clock resolution of the model
StartSec == 100         \* CLOCK_REALTIME reading at program start, seconds
BigBack == 12           \* size in seconds of a large backward clock step
MaxBackSteps == 1       \* how many backward clock steps are explored
HighSnr == 30           \* a signal strength above the floor
MaxPollSats == 1        \* satellites per report where the clock is explored

\* ------------------------------------------------------ program constants
Deadline == 10          \* seconds, the "10 <" of the timeout test
Slice == 5              \* seconds, the 5000000 us of gps_waiting()

OID_VISIBLE == ".1.3.6.1.2.1.25.1.31"
OID_USED == ".1.3.6.1.2.1.25.1.32"
OID_SNR_AVG == ".1.3.6.1.2.1.25.1.33"

\* requested OIDs explored: the three table entries, the empty string
\* (no -g given), and strings that are not in the table
UnknownOids == {".1.3.6.1.2.1.25.1.3"}
Oids == {OID_VISIBLE, OID_USED, OID_SNR_AVG, ""} \cup UnknownOids

SliceTicks == Slice * TicksPerSec
BackSteps == {1, BigBack}
\* cap of the elapsed-time counter; the loop cannot run longer than this
MaxReal == (Deadline + Slice + 1 + MaxBackSteps * BigBack) * TicksPerSec

\* ------------------------------------------------------------ data model
ZeroSat == [used |-> FALSE, ss |-> 0]
Satellites ==
    {ZeroSat, [used |-> TRUE, ss |-> 1], [used |-> TRUE, ss |-> HighSnr],
     [used |-> FALSE, ss |-> HighSnr]}

ZeroSky == [i \in 1..MaxChannels |-> ZeroSat]

\* the satellite part of struct gps_data_t after a SKY report: the first
\* satellites_visible slots of skyview[] are filled, the others are cleared
SkiesOf(v) ==
    { t \in [1..MaxChannels -> Satellites] :
        \A i \in 1..MaxChannels : i > v => t[i] = ZeroSat }

SkyReports ==
    UNION { { [satellites_used |-> u, satellites_visible |-> v, skyview |-> s] :
                u \in 0..MaxChannels, s \in SkiesOf(v) } :
            v \in 0..MaxChannels }

\* the small reports used where the behaviour of the clock is explored:
\* few satellites, satellites_used counting the records flagged used
PollReports ==
    { r \in SkyReports :
        /\ r.satellites_visible <= MaxPollSats
        /\ r.satellites_used =
              Cardinality({ i \in 1..MaxChannels : r.skyview[i].used }) }

ZeroData == [satellites_used |-> 0, satellites_visible |-> 0,
             skyview |-> ZeroSky]

VARIABLES
    pc,         \* position in main()
    oid,        \* requested OID
    gpsdata,    \* satellite fields of struct gps_data_t
    satSet,     \* SATELLITE_SET & gpsdata.set
    wall,       \* CLOCK_REALTIME reading, ticks
    real,       \* ticks really elapsed since the loop started
    backSteps,  \* backward clock steps taken so far
    ts_start,   \* ts_start.tv_sec
    ts_now,     \* ts_now.tv_sec
    readAt,     \* value of real when the satellite report was read, or -1
    session,    \* calls made on the transport: counts, the last call, the
                \* state of the handle
    used, visible, snr_total, snr_avg,
    readIdx,    \* skyview[] indices read by the loop of lines 173-180
    stdout, stderr,
    exitCode,   \* -1 while running
    failure,    \* error kind of the exit, "" if none
    trail       \* phases of the core entered so far

vars == <<pc, oid, gpsdata, satSet, wall, real, backSteps, ts_start, ts_now,
          readAt, session, used, visible, snr_total, snr_avg, readIdx,
          stdout, stderr, exitCode, failure, trail>>

clockVars == <<wall, real, backSteps, ts_start, ts_now>>
metricVars == <<used, visible, snr_total, snr_avg, readIdx>>
ioVars == <<stdout, stderr>>

\* ------------------------------------------------------------- operators
tv_sec(w) == w \div TicksPerSec

llabs(x) == IF x < 0 THEN -x ELSE x

\* the timeout test with the operands of the subtraction exchanged and
\* no llabs()
TimedOutReversed(now, start) == Deadline < start - now

\* the timeout test with <= in place of <
TimedOutInclusive(now, start) == Deadline <= llabs(now - start)

\* the timeout test of line 162
TimedOut(now, start) == Deadline < llabs(now - start)

\* skyview[i] for the C index i; an index past the array reads whatever
\* follows it in memory
SkyAt(sky, i, oob) == IF i < MaxChannels THEN sky[i + 1] ELSE oob

\* the condition of lines 174-175
Qualifies(sat) == sat.used /\ 1 < sat.ss

\* the for loop of lines 173-180, from index i on
RECURSIVE SnrLoop(_, _, _, _)
SnrLoop(sky, i, u, oob) ==
    IF i <= u
    THEN (IF Qualifies(SkyAt(sky, i, oob)) THEN SkyAt(sky, i, oob).ss ELSE 0)
         + SnrLoop(sky, i + 1, u, oob)
    ELSE 0

\* the division guarded by replacing a zero divisor by one
SnrAvgClamped(total, u) == IF 0 < u THEN <<total, u>> ELSE <<total, 1>>

\* lines 182-184: snr_avg as an exact quotient
SnrAvg(total, u) == IF 0 < u THEN <<total, u>> ELSE <<0, 1>>

\* "%lf": six fractional digits, rounded to nearest; result in micro units
FormatLf(q) == (2 * 1000000 * q[1] + q[2]) \div (2 * q[2])

\* "%d"
FormatD(n) == n

\* struct oid_mib_xlate xlate[] with the two int pointers exchanged
xlateSwapped ==
    << [oid |-> OID_VISIBLE, int_val |-> "used", dbl_val |-> "NULL"],
       [oid |-> OID_USED, int_val |-> "visible", dbl_val |-> "NULL"],
       [oid |-> OID_SNR_AVG, int_val |-> "NULL", dbl_val |-> "snr_avg"] >>

\* struct oid_mib_xlate xlate[], without the terminating NULL entry
xlate ==
    << [oid |-> OID_VISIBLE, int_val |-> "visible", dbl_val |-> "NULL"],
       [oid |-> OID_USED, int_val |-> "used", dbl_val |-> "NULL"],
       [oid |-> OID_SNR_AVG, int_val |-> "NULL", dbl_val |-> "snr_avg"] >>

\* the scan stopping one entry early: the last entry is taken for a match
RECURSIVE ScanShort(_, _)
ScanShort(o, k) ==
    IF k >= Len(xlate) THEN k
    ELSE IF xlate[k].oid = o THEN k
    ELSE ScanShort(o, k + 1)

\* the scan of lines 185-197: index of the first entry whose oid equals o,
\* Len(xlate) + 1 when the scan reaches the NULL entry
RECURSIVE Scan(_, _)
Scan(o, k) ==
    IF k > Len(xlate) THEN k
    ELSE IF xlate[k].oid = o THEN k
    ELSE Scan(o, k + 1)

MetricLine(o, kind, v) == [what |-> "metric", oid |-> o, kind |-> kind, value |-> v]
UsageText == [what |-> "usage"]
ErrLine(tag, arg) == [tag |-> tag, arg |-> arg]

\* exit(0) whatever the outcome, as the help branches of lines 104 and 119
ExitZero(code, why) ==
    /\ pc' = "exited"
    /\ exitCode' = 0
    /\ failure' = why

Exit(code, why) ==
    /\ pc' = "exited"
    /\ exitCode' = code
    /\ failure' = why

Enter(ph) == trail' = Append(trail, ph)

\* ------------------------------------------------------------------ Init
Init ==
    /\ pc = "args"
    /\ oid \in Oids
    /\ gpsdata = ZeroData
    /\ satSet = FALSE
    /\ wall \in {StartSec * TicksPerSec + p : p \in 0..(TicksPerSec - 1)}
    /\ real = 0
    /\ backSteps = 0
    /\ ts_start = 0
    /\ ts_now = 0
    /\ readAt = -1
    /\ session = [opens |-> 0, subscribes |-> 0, closes |-> 0, last |-> "none",
                  handle |-> "none"]
    /\ used = 0
    /\ visible = 0
    /\ snr_total = 0
    /\ snr_avg = <<0, 1>>
    /\ readIdx = {}
    /\ stdout = <<>>
    /\ stderr = <<>>
    /\ exitCode = -1
    /\ failure = ""
    /\ trail = <<"Idle">>

\* --------------------------------------------------------------- actions
\* lines 124-128
MissingOption ==
    /\ pc = "args"
    /\ oid = ""
    /\ stderr' = Append(stderr, ErrLine("Missing option", ""))
    /\ stdout' = Append(stdout, UsageText)
    /\ Exit(1, "MissingArgument")
    /\ Enter("Failed")
    /\ UNCHANGED <<oid, gpsdata, satSet, readAt, session>>
    /\ UNCHANGED <<clockVars, metricVars>>

ArgsOk ==
    /\ pc = "args"
    /\ oid # ""
    /\ pc' = "open"
    /\ UNCHANGED <<oid, gpsdata, satSet, readAt, session, exitCode, failure,
                   trail>>
    /\ UNCHANGED <<clockVars, metricVars, ioVars>>

\* a failed gps_open() that is reported and then tried again
OpenFailRetry ==
    /\ pc = "open"
    /\ session.opens < 2
    /\ session' = [session EXCEPT !.opens = @ + 1, !.last = "openFail"]
    /\ stderr' = Append(stderr, ErrLine("connection failed", ""))
    /\ failure' = "ConnectionFailure"
    /\ UNCHANGED <<pc, oid, gpsdata, satSet, readAt, stdout, exitCode, trail>>
    /\ UNCHANGED <<clockVars, metricVars>>

\* lines 138-143, gps_open() returns non-zero
OpenFail ==
    /\ pc = "open"
    /\ session' = [session EXCEPT !.opens = @ + 1, !.last = "openFail"]
    /\ stderr' = Append(stderr, ErrLine("connection failed", ""))
    /\ Exit(1, "ConnectionFailure")
    /\ Enter("Failed")
    /\ UNCHANGED <<oid, gpsdata, satSet, readAt, stdout>>
    /\ UNCHANGED <<clockVars, metricVars>>

\* lines 138-139, gps_open() returns 0
OpenOk ==
    /\ pc = "open"
    /\ session' = [session EXCEPT !.opens = @ + 1, !.last = "open",
                                   !.handle = "open"]
    /\ pc' = "stream"
    /\ UNCHANGED <<oid, gpsdata, satSet, readAt, exitCode, failure, trail>>
    /\ UNCHANGED <<clockVars, metricVars, ioVars>>

\* lines 145-147: gps_stream(), clock_gettime(&ts_start)
Stream ==
    /\ pc = "stream"
    /\ session' = [session EXCEPT !.subscribes = @ + 1, !.last = "subscribe"]
    /\ ts_start' = tv_sec(wall)
    /\ pc' = "wait"
    /\ Enter("Polling")
    /\ UNCHANGED <<oid, gpsdata, satSet, readAt, exitCode, failure>>
    /\ UNCHANGED <<wall, real, backSteps, ts_now>>
    /\ UNCHANGED <<metricVars, ioVars>>

\* line 149: gps_waiting() returns true after d ticks, d within the slice
WaitReady(d) ==
    /\ pc = "wait"
    /\ real + d <= MaxReal
    /\ wall' = wall + d
    /\ real' = real + d
    /\ session' = [session EXCEPT !.last = "waitTrue"]
    /\ pc' = "read"
    /\ UNCHANGED <<oid, gpsdata, satSet, readAt, exitCode, failure, trail>>
    /\ UNCHANGED <<backSteps, ts_start, ts_now>>
    /\ UNCHANGED <<metricVars, ioVars>>

\* line 149: gps_waiting() returns false when the slice has passed without
\* data, the while loop ends and control continues at line 171
WaitNotReady ==
    /\ pc = "wait"
    /\ real + SliceTicks <= MaxReal
    /\ wall' = wall + SliceTicks
    /\ real' = real + SliceTicks
    /\ session' = [session EXCEPT !.last = "waitFalse"]
    /\ pc' = "aggregate"
    /\ Enter("Aggregating")
    /\ UNCHANGED <<oid, gpsdata, satSet, readAt, exitCode, failure>>
    /\ UNCHANGED <<backSteps, ts_start, ts_now>>
    /\ UNCHANGED <<metricVars, ioVars>>

\* CLOCK_REALTIME is set back by s seconds while the loop polls
ClockStepBack(s) ==
    /\ pc \in {"wait", "read"}
    /\ backSteps < MaxBackSteps
    /\ backSteps' = backSteps + 1
    /\ wall' = wall - s * TicksPerSec
    /\ UNCHANGED <<pc, oid, gpsdata, satSet, readAt, session, exitCode,
                   failure, trail, real, ts_start, ts_now>>
    /\ UNCHANGED <<metricVars, ioVars>>

\* a failed gps_read() that is reported and then retried
ReadFailRetry ==
    /\ pc = "read"
    /\ session' = [session EXCEPT !.last = "readFail"]
    /\ stderr' = Append(stderr, ErrLine("read failed", ""))
    /\ failure' = "TransportFailure"
    /\ pc' = "wait"
    /\ UNCHANGED <<oid, gpsdata, satSet, readAt, stdout, exitCode, trail>>
    /\ UNCHANGED <<clockVars, metricVars>>

\* lines 151-155: gps_read() returns -1
ReadFail ==
    /\ pc = "read"
    /\ session' = [session EXCEPT !.last = "readFail"]
    /\ stderr' = Append(stderr, ErrLine("read failed", ""))
    /\ Exit(1, "TransportFailure")
    /\ Enter("Failed")
    /\ UNCHANGED <<oid, gpsdata, satSet, readAt, stdout>>
    /\ UNCHANGED <<clockVars, metricVars>>

\* lines 151, 156-159: gps_read() decodes a SKY report, break
ReadSat(rep) ==
    /\ pc = "read"
    /\ session' = [session EXCEPT !.last = "read"]
    /\ gpsdata' = rep
    /\ satSet' = TRUE
    /\ readAt' = real
    /\ pc' = "aggregate"
    /\ Enter("Aggregating")
    /\ UNCHANGED <<oid, exitCode, failure>>
    /\ UNCHANGED <<clockVars, metricVars, ioVars>>

\* the timeout reported and the loop left with break instead of exit(1)
ReadOtherBreak ==
    /\ pc = "read"
    /\ session' = [session EXCEPT !.last = "read"]
    /\ satSet' = FALSE
    /\ ts_now' = tv_sec(wall)
    /\ IF TimedOut(tv_sec(wall), ts_start)
       THEN /\ stderr' = Append(stderr, ErrLine("timeout", ""))
            /\ failure' = "Timeout"
            /\ pc' = "aggregate"
            /\ Enter("Aggregating")
            /\ UNCHANGED exitCode
       ELSE /\ pc' = "wait"
            /\ UNCHANGED <<stderr, exitCode, failure, trail>>
    /\ UNCHANGED <<oid, gpsdata, readAt, stdout>>
    /\ UNCHANGED <<wall, real, backSteps, ts_start>>
    /\ UNCHANGED metricVars

\* the next gps_read() issued without a gps_waiting() in between
ReadOtherNoWait ==
    /\ pc = "read"
    /\ session' = [session EXCEPT !.last = "read"]
    /\ satSet' = FALSE
    /\ ts_now' = tv_sec(wall)
    /\ IF TimedOut(tv_sec(wall), ts_start)
       THEN /\ stderr' = Append(stderr, ErrLine("timeout", ""))
            /\ Exit(1, "Timeout")
            /\ Enter("Failed")
       ELSE /\ pc' = "read"
            /\ UNCHANGED <<stderr, exitCode, failure, trail>>
    /\ UNCHANGED <<oid, gpsdata, readAt, stdout>>
    /\ UNCHANGED <<wall, real, backSteps, ts_start>>
    /\ UNCHANGED metricVars

\* lines 151, 156, 160-167: gps_read() decodes some other report, then
\* clock_gettime(&ts_now) and the timeout test
ReadOther ==
    /\ pc = "read"
    /\ session' = [session EXCEPT !.last = "read"]
    /\ satSet' = FALSE
    /\ ts_now' = tv_sec(wall)
    /\ IF TimedOut(tv_sec(wall), ts_start)
       THEN /\ stderr' = Append(stderr, ErrLine("timeout", ""))
            /\ Exit(1, "Timeout")
            /\ Enter("Failed")
       ELSE /\ pc' = "wait"
            /\ UNCHANGED <<stderr, exitCode, failure, trail>>
    /\ UNCHANGED <<oid, gpsdata, readAt, stdout>>
    /\ UNCHANGED <<wall, real, backSteps, ts_start>>
    /\ UNCHANGED metricVars

\* lines 171-184: copy the counts, sum the signal strengths of skyview[0]
\* to skyview[used], gps_close(), divide
Aggregate(oob) ==
    /\ pc = "aggregate"
    /\ used' = gpsdata.satellites_used
    /\ visible' = gpsdata.satellites_visible
    /\ readIdx' = 0..gpsdata.satellites_used
    /\ snr_total' = snr_total
                    + SnrLoop(gpsdata.skyview, 0, gpsdata.satellites_used, oob)
    /\ session' = [session EXCEPT !.closes = @ + 1, !.last = "close",
                                   !.handle = "closed"]
    /\ snr_avg' = SnrAvg(snr_total', used')
    /\ pc' = "resolve"
    /\ Enter("Resolving")
    /\ UNCHANGED <<oid, gpsdata, satSet, readAt, exitCode, failure>>
    /\ UNCHANGED <<clockVars, ioVars>>

\* lines 185-206: look the OID up, print the metric or the error
Resolve ==
    /\ pc = "resolve"
    /\ LET k == Scan(oid, 1) IN
       IF k <= Len(xlate)
       THEN /\ IF xlate[k].int_val # "NULL"
               THEN /\ stdout' = Append(stdout,
                          MetricLine(xlate[k].oid, "int",
                              FormatD(IF xlate[k].int_val = "visible"
                                      THEN visible ELSE used)))
                    /\ UNCHANGED stderr
               ELSE IF xlate[k].dbl_val # "NULL"
               THEN /\ stdout' = Append(stdout,
                          MetricLine(xlate[k].oid, "float", FormatLf(snr_avg)))
                    /\ UNCHANGED stderr
               ELSE /\ stderr' = Append(stderr, ErrLine("internal error", oid))
                    /\ UNCHANGED stdout
            /\ Exit(0, "")
            /\ Enter("Done")
       ELSE /\ stderr' = Append(stderr, ErrLine("Unknown OID", oid))
            /\ stdout' = Append(stdout, UsageText)
            /\ Exit(1, "UnknownIdentifier")
            /\ Enter("Failed")
    /\ UNCHANGED <<oid, gpsdata, satSet, readAt, session>>
    /\ UNCHANGED <<clockVars, metricVars>>

\* the whole program, every clock behaviour, small reports
Next ==
    \/ MissingOption
    \/ ArgsOk
    \/ OpenFail
    \/ OpenOk
    \/ Stream
    \/ \E d \in 0..SliceTicks : WaitReady(d)
    \/ WaitNotReady
    \/ \E s \in BackSteps : ClockStepBack(s)
    \/ ReadFail
    \/ \E rep \in PollReports : ReadSat(rep)
    \/ ReadOther
    \/ \E oob \in Satellites : Aggregate(oob)
    \/ Resolve

Spec == Init /\ [][Next]_vars

\* the whole program, every report, a clock that is never set back and
\* waits that return at once or at the end of the slice
NextSky ==
    \/ MissingOption
    \/ ArgsOk
    \/ OpenFail
    \/ OpenOk
    \/ Stream
    \/ \E d \in {0, SliceTicks} : WaitReady(d)
    \/ WaitNotReady
    \/ ReadFail
    \/ \E rep \in SkyReports : ReadSat(rep)
    \/ ReadOther
    \/ \E oob \in Satellites : Aggregate(oob)
    \/ Resolve

SpecSky == Init /\ [][NextSky]_vars

\* the program with a transport that is always ready and never delivers a
\* SKY report nor an error, and a clock that is never set back
NextBounded ==
    \/ MissingOption
    \/ ArgsOk
    \/ OpenFail
    \/ OpenOk
    \/ Stream
    \/ \E d \in 0..SliceTicks : WaitReady(d)
    \/ ReadOther

\* the program keeps running, and the clock keeps advancing: a wait during
\* which time passes happens again and again as long as the loop polls
SpecBounded ==
    /\ Init
    /\ [][NextBounded]_vars
    /\ WF_vars(NextBounded)
    /\ SF_vars(\E d \in 1..SliceTicks : WaitReady(d))

\* ------------------------------------------------------------ properties
Entered(ph) == \E i \in 1..Len(trail) : trail[i] = ph

MetricPrinted == \E i \in 1..Len(stdout) : stdout[i].what = "metric"

InTable(o) == \E k \in 1..Len(xlate) : xlate[k].oid = o

DeadlineTicks == Deadline * TicksPerSec

\* C1: the aggregation is entered, and a metric line printed, only after a
\* gps_read() whose report has SATELLITE_SET; a gps_waiting() that returns
\* false must not lead to the aggregation.
C1_OnlyAfterSatelliteReport ==
    (Entered("Aggregating") \/ MetricPrinted \/ exitCode = 0) => satSet

\* C2: in every terminated run in which gps_open() succeeded, gps_close()
\* has been called exactly once.
C2_ReleasedOnEveryPath ==
    (pc = "exited" /\ session.handle # "none") =>
        (session.closes = 1 /\ session.handle = "closed")

\* C3: a terminated run of the core has written either exactly one metric
\* line or nothing to stdout, and nothing at all when it failed.
C3_NoPartialOutput ==
    (pc = "exited" /\ oid # "") =>
        /\ \/ stdout = <<>>
           \/ Len(stdout) = 1 /\ stdout[1].what = "metric"
        /\ failure # "" => stdout = <<>>

\* the sum of the signal strengths of all the records of the report that
\* are used and above the floor
RECURSIVE RefSum(_, _)
RefSum(data, n) ==
    IF n = 0 THEN 0
    ELSE (IF data.skyview[n].used /\ data.skyview[n].ss > 1
          THEN data.skyview[n].ss ELSE 0) + RefSum(data, n - 1)

RefAvg(data) ==
    IF data.satellites_used > 0
    THEN <<RefSum(data, data.satellites_visible), data.satellites_used>>
    ELSE <<0, 1>>

SameQuotient(a, b) == a[1] * b[2] = b[1] * a[2]

\* C4: for every satellite report, snr_avg is the sum of ss over ALL the
\* records of the report that are used and have ss > 1, divided by
\* satellites_used when that is positive, else 0.
C4_AverageOverAllRecords ==
    (satSet /\ Entered("Resolving")) => SameQuotient(snr_avg, RefAvg(gpsdata))

\* C5: with a clock that runs forward, the aggregation is never entered
\* when more than 10 seconds have passed since the loop started.
C5_DeadlineEnforced ==
    (backSteps = 0 /\ Entered("Aggregating")) => real <= DeadlineTicks

C8_ReadFailureAborts ==
    failure = "TransportFailure" =>
        /\ pc = "exited"
        /\ exitCode = 1
        /\ session.last = "readFail"
        /\ session.closes = 0
        /\ stdout = <<>>
        /\ ~Entered("Aggregating")
        /\ ~Entered("Resolving")

C8_Witness ==
    /\ pc = "exited"
    /\ failure = "TransportFailure"
    /\ ts_now >= ts_start + 1

\* C9: for a non-empty OID that is not in the table no metric line is ever
\* printed and the exit code is 1; when the lookup is reached the failure
\* is the unknown OID, reported with the string.
C9_UnknownOidFails ==
    (oid # "" /\ ~InTable(oid)) =>
        /\ ~MetricPrinted
        /\ pc = "exited" => exitCode = 1
        /\ (pc = "exited" /\ Entered("Resolving")) =>
              /\ failure = "UnknownIdentifier"
              /\ stderr = <<ErrLine("Unknown OID", oid)>>

C9_Witness ==
    /\ pc = "exited"
    /\ oid # "" /\ ~InTable(oid)
    /\ satSet
    /\ failure = "UnknownIdentifier"

\* C10: after the poll, OID .31 prints satellites_visible with %d, .32
\* prints satellites_used with %d, .33 prints snr_avg with %lf, each with
\* the OID itself; every other string is an unknown OID; no OID is in the
\* table twice and the internal error branch is not taken.
C10_ResolverTotal ==
    /\ \A i, j \in 1..Len(xlate) : xlate[i].oid = xlate[j].oid => i = j
    /\ \A i \in 1..Len(stderr) : stderr[i].tag # "internal error"
    /\ (pc = "exited" /\ Entered("Resolving")) =>
          /\ oid = OID_VISIBLE =>
                /\ stdout = <<MetricLine(OID_VISIBLE, "int",
                                         gpsdata.satellites_visible)>>
                /\ exitCode = 0
          /\ oid = OID_USED =>
                /\ stdout = <<MetricLine(OID_USED, "int",
                                         gpsdata.satellites_used)>>
                /\ exitCode = 0
          /\ oid = OID_SNR_AVG =>
                /\ stdout = <<MetricLine(OID_SNR_AVG, "float",
                                FormatLf(SnrAvg(snr_total, used)))>>
                /\ exitCode = 0
          /\ oid \notin {OID_VISIBLE, OID_USED, OID_SNR_AVG} =>
                /\ failure = "UnknownIdentifier"
                /\ exitCode = 1

C10_Witness ==
    /\ pc = "exited"
    /\ satSet
    /\ oid = OID_SNR_AVG
    /\ gpsdata.satellites_visible # gpsdata.satellites_used
    /\ snr_total > 0
    /\ Len(stdout) = 1

\* C6: with a transport that is always ready and delivers only reports
\* without SATELLITE_SET, and a clock that advances, the poll loop ends,
\* and it ends with the timeout and exit code 1, never in the aggregation.
C6_BoundedWait ==
    /\ (pc = "wait") ~> (pc = "exited" /\ failure = "Timeout" /\ exitCode = 1)
    /\ [](pc \notin {"aggregate", "resolve"})

C6_Witness ==
    /\ pc = "exited"
    /\ failure = "Timeout"
    /\ exitCode = 1
    /\ real > DeadlineTicks

\* C11: for a report with satellites_used = 0 snr_avg is 0.0 whatever the
\* records hold, nothing is divided by zero, and the used-count OID
\* prints 0.
C11_ZeroUsed ==
    (satSet /\ Entered("Resolving") /\ gpsdata.satellites_used = 0) =>
        /\ snr_avg[2] # 0
        /\ snr_avg[1] = 0
        /\ (pc = "exited" /\ oid = OID_USED) =>
              stdout = <<MetricLine(OID_USED, "int", 0)>>
        /\ (pc = "exited" /\ oid = OID_SNR_AVG) =>
              stdout = <<MetricLine(OID_SNR_AVG, "float", 0)>>

C11_Witness ==
    /\ pc = "exited"
    /\ satSet
    /\ gpsdata.satellites_used = 0
    /\ Qualifies(gpsdata.skyview[1])
    /\ snr_total > 0
    /\ oid = OID_SNR_AVG

\* C12: a terminated run has exit code 0 exactly when it printed one
\* metric line for a table OID, and exit code 1 for every failure kind.
C12_ExitCodes ==
    pc = "exited" =>
        /\ exitCode \in {0, 1}
        /\ exitCode = 0 <=>
              /\ Len(stdout) = 1
              /\ stdout[1].what = "metric"
              /\ stdout[1].oid = oid
              /\ InTable(oid)
        /\ failure \in {"MissingArgument", "ConnectionFailure",
                        "TransportFailure", "Timeout", "UnknownIdentifier"}
              => exitCode = 1
        /\ failure = "" => exitCode = 0

C12_Witness ==
    /\ pc = "exited"
    /\ exitCode = 0
    /\ satSet
    /\ stdout = <<MetricLine(OID_USED, "int", gpsdata.satellites_used)>>

\* C13: when gps_open() fails the run exits with 1 after that single call:
\* no gps_stream(), gps_waiting(), gps_read() or gps_close(), empty stdout.
C13_ConnectionFailureTerminal ==
    failure = "ConnectionFailure" =>
        /\ pc = "exited"
        /\ exitCode = 1
        /\ session = [opens |-> 1, subscribes |-> 0, closes |-> 0,
                      last |-> "openFail", handle |-> "none"]
        /\ stdout = <<>>
        /\ trail = <<"Idle", "Failed">>

C13_Witness ==
    /\ pc = "exited"
    /\ failure = "ConnectionFailure"
    /\ session.opens = 1

\* C14: the phases run Idle, Polling, Aggregating, Resolving, Done, none
\* entered twice; after the session is open the only failures are the
\* timeout and the read failure out of Polling and the unknown OID out of
\* Resolving.
C14_LinearPhases ==
    /\ \/ trail = <<"Idle">>
       \/ trail = <<"Idle", "Failed">>
             /\ failure \in {"MissingArgument", "ConnectionFailure"}
       \/ trail = <<"Idle", "Polling">> /\ failure = ""
       \/ trail = <<"Idle", "Polling", "Failed">>
             /\ failure \in {"Timeout", "TransportFailure"}
       \/ trail = <<"Idle", "Polling", "Aggregating">> /\ failure = ""
       \/ trail = <<"Idle", "Polling", "Aggregating", "Resolving">>
             /\ failure = ""
       \/ trail = <<"Idle", "Polling", "Aggregating", "Resolving", "Done">>
             /\ failure = ""
       \/ trail = <<"Idle", "Polling", "Aggregating", "Resolving", "Failed">>
             /\ failure = "UnknownIdentifier"
    /\ pc = "exited" <=> trail[Len(trail)] \in {"Done", "Failed"}
    /\ pc = "aggregate" <=> trail[Len(trail)] = "Aggregating"
    /\ pc = "resolve" <=> trail[Len(trail)] = "Resolving"
    /\ pc \in {"wait", "read"} <=> trail[Len(trail)] = "Polling"

C14_Witness ==
    /\ trail = <<"Idle", "Polling", "Aggregating", "Resolving", "Done">>
    /\ satSet
    /\ ts_now >= ts_start + 1

\* a step that makes the named transport call
Calls(kinds) == session' # session /\ session'.last \in kinds

\* C15: gps_stream() is called once, right after the successful gps_open()
\* and before any gps_waiting(); every gps_read() directly follows a
\* gps_waiting() that returned true; nothing is called on the handle after
\* gps_close().
C15_CallOrder ==
    /\ [](/\ session.subscribes <= 1
          /\ pc \in {"wait", "read", "aggregate", "resolve"}
                => session.subscribes = 1
          /\ pc = "read" => session.last = "waitTrue" /\ session.handle = "open"
          /\ pc = "wait" => session.last \in {"subscribe", "read"}
                            /\ session.handle = "open"
          /\ session.handle = "closed" => pc \in {"resolve", "exited"})
    /\ [][/\ Calls({"subscribe"}) =>
                session.last = "open" /\ session.subscribes = 0
          /\ Calls({"read", "readFail"}) => session.last = "waitTrue"
          /\ Calls({"subscribe", "waitTrue", "waitFalse", "read", "readFail"})
                => session.handle = "open"
          /\ session.handle = "closed" => session' = session]_vars

C15_Witness ==
    /\ pc = "exited"
    /\ session.handle = "closed"
    /\ session.subscribes = 1
    /\ ts_now >= ts_start + 1

\* C16: the loop of lines 173-180 reads only records of the report, that
\* is skyview[i] with 0 <= i < satellites_visible.
C16_ReadsInsideReport ==
    (satSet /\ Entered("Resolving")) =>
        \A i \in readIdx : 0 <= i /\ i < gpsdata.satellites_visible

\* C17: when the clock is never set back the timeout is reported only
\* after more than 10 seconds, at a read without SATELLITE_SET at which
\* the whole-second difference to the start reading is at least 11.
C17_NoEarlyTimeout ==
    (backSteps = 0 /\ failure = "Timeout") =>
        /\ real > DeadlineTicks
        /\ ts_now - ts_start >= Deadline + 1
        /\ session.last = "read"
        /\ ~satSet

C17_Witness ==
    /\ backSteps = 0
    /\ failure = "Timeout"
    /\ ts_now - ts_start = Deadline + 1
    /\ real < (Deadline + 1) * TicksPerSec

====
